---- MODULE Spec2Model ----
(***************************************************************************)
(* Warehouse bin assignment (Notebooks/pulp_optimization.ipynb, cell       *)
(* 27eb6811).  The cell defines two tables (materials, bins), derives a    *)
(* 0/1 compatibility dictionary, states a 0/1 integer program (one         *)
(* variable x[i][b] per material/bin pair, objective frequency*distance,   *)
(* coverage, capacity and compatibility rows), hands it to the solver with *)
(* model.solve(), prints every pair whose variable has the value 1 and     *)
(* finally prints value(model.objective).                                  *)
(*                                                                         *)
(* Materials and bins are sequences of records in table order.  A variable *)
(* value is kept as a multiple of 1/One, so that the test `varValue == 1`  *)
(* and the fractional values a solver leaves behind are both expressible.  *)
(***************************************************************************)
EXTENDS Integers, Sequences, FiniteSets

VARIABLES materials, bins, compatibility, model, x, status, out, total, pc

vars == <<materials, bins, compatibility, model, x, status, out, total, pc>>

\* ------------------------------------------------------------------ bounds
MaxItems == 2
MaxBins == 2

\* The largest number of variables whose leftover values are listed in full.
MaxListed == 4

\* The value 1.0 of a decision variable, in units of 1/3.
One == 3

\* ------------------------------------------------------------ input tables
Tags == {"fragile", "hazardous", "regular"}
Types == {"safe", "regular", "special"}

MaterialNames == <<"M1", "M2", "M3", "M4", "M5", "M6", "M7", "M8", "M9", "M10">>
BinNames == <<"B1", "B2", "B3", "B4", "B5">>

Material(n, f, s, t) == [material |-> n, frequency |-> f, size |-> s, tag |-> t]
Bin(n, c, d, t) == [bin |-> n, capacity |-> c, distance |-> d, type |-> t]

\* Step 1 of the cell: the ten materials and five bins it ships with.
NotebookMaterials ==
  << Material("M1", 3, 5, "fragile"),   Material("M2", 1, 4, "regular"),
     Material("M3", 2, 6, "hazardous"), Material("M4", 3, 7, "regular"),
     Material("M5", 2, 3, "regular"),   Material("M6", 1, 2, "hazardous"),
     Material("M7", 3, 6, "fragile"),   Material("M8", 2, 5, "regular"),
     Material("M9", 1, 4, "hazardous"), Material("M10", 3, 6, "fragile") >>

NotebookBins ==
  << Bin("B1", 15, 1, "safe"),    Bin("B2", 20, 2, "regular"),
     Bin("B3", 10, 3, "special"), Bin("B4", 25, 1, "regular"),
     Bin("B5", 12, 4, "safe") >>

\* The one-material, two-bin scenario: M1 with bins B1 and B3 of the table.
ScenarioMaterials == << NotebookMaterials[1] >>
ScenarioBins == << NotebookBins[1], NotebookBins[3] >>

\* Other tables the same cell can be run on: up to MaxItems materials and
\* MaxBins bins, named in table order.  A material is a tag with a
\* <<frequency, size>> profile, a bin a type with a <<capacity, distance>>
\* profile; rows are listed in a fixed order of the pool (a table differs from
\* a reordered one only in which row is called M1 or B1).
TagOrder == <<"fragile", "hazardous", "regular">>
TypeOrder == <<"safe", "regular", "special">>
MaterialProfiles == << <<3, 1>>, <<1, 2>> >>
BinProfiles == << <<1, 1>>, <<2, 1>>, <<2, 2>> >>

MaterialPool ==
  [p \in 1..(Len(TagOrder) * Len(MaterialProfiles)) |->
     <<MaterialProfiles[((p - 1) \div Len(TagOrder)) + 1][1],
       MaterialProfiles[((p - 1) \div Len(TagOrder)) + 1][2],
       TagOrder[((p - 1) % Len(TagOrder)) + 1]>>]

BinPool ==
  [p \in 1..(Len(TypeOrder) * Len(BinProfiles)) |->
     <<BinProfiles[((p - 1) \div Len(TypeOrder)) + 1][1],
       BinProfiles[((p - 1) \div Len(TypeOrder)) + 1][2],
       TypeOrder[((p - 1) % Len(TypeOrder)) + 1]>>]

\* The non-decreasing index sequences of length n over 1..k.
Ascending(n, k) == { s \in [1..n -> 1..k] : \A a \in 1..n : \A b \in a..n : s[a] <= s[b] }

MaterialLists ==
  UNION { { [k \in 1..n |-> Material(MaterialNames[k], MaterialPool[s[k]][1],
                                     MaterialPool[s[k]][2], MaterialPool[s[k]][3])] :
              s \in Ascending(n, Len(MaterialPool)) } : n \in 1..MaxItems }

BinLists ==
  UNION { { [k \in 1..m |-> Bin(BinNames[k], BinPool[s[k]][1],
                                BinPool[s[k]][2], BinPool[s[k]][3])] :
              s \in Ascending(m, Len(BinPool)) } : m \in 1..MaxBins }

NoModel == [built |-> FALSE]

\* ------------------------------------------------------- step 2: compatibility
\* A slip of the second rule: hazardous materials held to safe bins.
CompatibilityOfSafeOnly(item, b) ==
  IF item.tag = "fragile" /\ b.type # "safe" THEN 0
  ELSE IF item.tag = "hazardous" /\ b.type # "safe" THEN 0
  ELSE 1

\* The if / elif / else of the compatibility loop, for one (material, bin).
CompatibilityOf(item, b) ==
  IF item.tag = "fragile" /\ b.type # "safe" THEN 0
  ELSE IF item.tag = "hazardous" /\ b.type # "special" THEN 0
  ELSE 1

\* The dictionary the two nested loops leave behind, keyed by the two names.
CompatibilityMatrix(ms, bs) ==
  [ p \in { <<ms[k].material, bs[j].bin>> : k \in 1..Len(ms), j \in 1..Len(bs) } |->
      LET k == CHOOSE k \in 1..Len(ms) : ms[k].material = p[1]
          j == CHOOSE j \in 1..Len(bs) : bs[j].bin = p[2]
      IN CompatibilityOf(ms[k], bs[j]) ]

\* ------------------------------------------------------ step 3: the problem
RECURSIVE SumTo(_, _)
\* f[1] + ... + f[n]  (lpSum over a table column)
SumTo(f, n) == IF n = 0 THEN 0 ELSE f[n] + SumTo(f, n - 1)

\* A slip of the objective: the size of i where its frequency belongs.
ObjectiveCoefBySize(item, b) == item.size * b.distance

\* Coefficient of x[i][b] in the objective: frequency of i times distance of b.
ObjectiveCoef(item, b) == item.frequency * b.distance

\* Coefficient of x[i][b] in the capacity row of b: the size of i.
CapacityCoef(item) == item.size

\* The LpProblem after step 3: objective, coverage rows (right-hand side
\* `cover`), capacity rows and the upper bounds x[i][b] <= compatibility[(i, b)].
ProblemOf(ms, bs, compat) ==
  [ built |-> TRUE,
    n |-> Len(ms),
    m |-> Len(bs),
    objective |-> [k \in 1..Len(ms) |-> [j \in 1..Len(bs) |-> ObjectiveCoef(ms[k], bs[j])]],
    cover |-> 1,
    size |-> [k \in 1..Len(ms) |-> CapacityCoef(ms[k])],
    capacity |-> [j \in 1..Len(bs) |-> bs[j].capacity],
    upper |-> [k \in 1..Len(ms) |-> [j \in 1..Len(bs) |->
                 compat[<<ms[k].material, bs[j].bin>>]]] ]

\* Row `each material assigned to one bin`: lpSum(x[i][b] for b) == 1.
CoverageHolds(mdl, row) == SumTo(row, mdl.m) = mdl.cover * One

\* A slip of the compatibility rows: the inequality the wrong way round.
CompatibilityReversed(mdl, k, row) == \A j \in 1..mdl.m : row[j] >= mdl.upper[k][j] * One

\* Rows `respect compatibility`: x[i][b] <= compatibility[(i, b)], all b.
CompatibilityHolds(mdl, k, row) == \A j \in 1..mdl.m : row[j] <= mdl.upper[k][j] * One

\* Load of bin j under the first Len(xx) rows of x: lpSum(x[i][b] * size of i).
BinLoad(mdl, xx, j) == SumTo([k \in 1..Len(xx) |-> xx[k][j] * mdl.size[k]], Len(xx))

\* Rows `bin capacity`: the load of every bin is at most its capacity.
CapacityHolds(mdl, xx) == \A j \in 1..mdl.m : BinLoad(mdl, xx, j) <= mdl.capacity[j] * One

\* value(model.objective): the objective expression at the variables' values.
ObjectiveValue(mdl, xx) ==
  SumTo([k \in 1..mdl.n |-> SumTo([j \in 1..mdl.m |-> xx[k][j] * mdl.objective[k][j]], mdl.m)],
        mdl.n)

\* ------------------------------------------------------------- the solver
\* LpBinary: a variable is 0 or 1.
Binary == {0, One}

\* The 0/1 rows of material k that satisfy its coverage and compatibility rows.
RowsOf(mdl, k) ==
  { row \in [1..mdl.m -> Binary] : CoverageHolds(mdl, row) /\ CompatibilityHolds(mdl, k, row) }

RECURSIVE Partial(_, _)
\* The 0/1 values of the first k rows of x that satisfy every row of the
\* problem restricted to them (a load only grows as rows are added, so a
\* prefix over capacity has no feasible completion).
Partial(mdl, k) ==
  IF k = 0 THEN { <<>> }
  ELSE { q \in { Append(p, row) : p \in Partial(mdl, k - 1), row \in RowsOf(mdl, k) } :
           CapacityHolds(mdl, q) }

\* Every 0/1 point that satisfies all rows of the problem.
FeasibleSolutions(mdl) == Partial(mdl, mdl.n)

\* LpMinimize: the feasible points of least objective value.
OptimalSolutions(mdl) ==
  LET F == FeasibleSolutions(mdl)
      values == { ObjectiveValue(mdl, s) : s \in F }
      best == CHOOSE v \in values : \A w \in values : v <= w
  IN { s \in F : ObjectiveValue(mdl, s) = best }

\* ----------------------------------------------------------------- output
\* The pairs (k, j) in the order of the two print loops.
LoopOrder(n, m) == [p \in 1..(n * m) |-> <<((p - 1) \div m) + 1, ((p - 1) % m) + 1>>]

\* The lines "i -> b" printed: the pairs whose variable has the value 1.
PrintedLines(ms, bs, xx) ==
  LET IsOne(p) == xx[p[1]][p[2]] = One
      hits == SelectSeq(LoopOrder(Len(ms), Len(bs)), IsOne)
  IN [h \in 1..Len(hits) |-> <<ms[hits[h][1]].material, bs[hits[h][2]].bin>>]

\* ------------------------------------------- the output stored in the notebook
\* The eight lines under "Assigned Material -> Bin" in the cell's output.
RecordedLines ==
  << <<"M1", "B1">>, <<"M2", "B4">>, <<"M3", "B3">>, <<"M4", "B4">>,
     <<"M5", "B4">>, <<"M6", "B3">>, <<"M8", "B4">>, <<"M10", "B1">> >>

\* "Total Weighted Distance: 34.000000029999995", to the resolution 1/One.
RecordedObjective == 34

\* Variable values that print the recorded lines and evaluate to the recorded
\* objective: 1 on the recorded pairs, a fraction of 1 on the pairs that the
\* unprinted materials are compatible with, 0 elsewhere.
RecordedValues(ms, bs, mdl) ==
  LET lines == { RecordedLines[h] : h \in 1..Len(RecordedLines) }
      printed == { l[1] : l \in lines }
      open == { p \in (1..mdl.n) \X (1..mdl.m) :
                  ms[p[1]].material \notin printed /\ mdl.upper[p[1]][p[2]] = 1 }
      Point(a) == [k \in 1..mdl.n |-> [j \in 1..mdl.m |->
                     IF <<ms[k].material, bs[j].bin>> \in lines THEN One
                     ELSE IF <<k, j>> \in open THEN a[<<k, j>>] ELSE 0]]
  IN { xx \in { Point(a) : a \in [open -> 0..(One - 1)] } :
         ObjectiveValue(mdl, xx) = RecordedObjective * One }

\* The values a variable can be left at, to the resolution 1/One: LpBinary
\* binds an optimum, not what is left after a solve that ends Infeasible.
Fractions == 0..One

\* The value matrices that hold one value throughout: nothing printed, every
\* pair printed, or every variable at the same fraction.
UniformValues(mdl) == { [k \in 1..mdl.n |-> [j \in 1..mdl.m |-> v]] : v \in Fractions }

\* What the variables hold after a solve that ends Infeasible.  The solver
\* promises nothing about them: any values, whatever the tables.  A table of
\* more than MaxListed variables has too many value matrices to list; of
\* those, the ones listed are the values behind the stored output (where the
\* table has its rows) and the uniform ones.
LeftoverValues(ms, bs, mdl) ==
  IF mdl.n * mdl.m <= MaxListed
  THEN [1..mdl.n -> [1..mdl.m -> Fractions]]
  ELSE RecordedValues(ms, bs, mdl) \cup UniformValues(mdl)

\* ------------------------------------------------------------ state machine
Init ==
  /\ \/ materials = NotebookMaterials /\ bins = NotebookBins
     \/ materials = ScenarioMaterials /\ bins = ScenarioBins
     \/ materials \in MaterialLists /\ bins \in BinLists
  /\ compatibility = <<>>
  /\ model = NoModel
  /\ x = <<>>
  /\ status = "Not Solved"
  /\ out = <<>>
  /\ total = 0
  /\ pc = "data"

\* Step 2: build the compatibility dictionary.
BuildCompatibility ==
  /\ pc = "data"
  /\ compatibility' = CompatibilityMatrix(materials, bins)
  /\ pc' = "compat"
  /\ UNCHANGED <<materials, bins, model, x, status, out, total>>

\* Step 3: define the problem (variables, objective, the three row families).
DefineProblem ==
  /\ pc = "compat"
  /\ model' = ProblemOf(materials, bins, compatibility)
  /\ pc' = "model"
  /\ UNCHANGED <<materials, bins, compatibility, x, status, out, total>>

\* model.solve() on a problem with a feasible point: status Optimal and an
\* optimal point.  No limit is set, so the search always runs to the end.
SolveOptimal ==
  /\ pc = "model"
  /\ FeasibleSolutions(model) # {}
  /\ status' = "Optimal"
  /\ x' \in OptimalSolutions(model)
  /\ pc' = "solved"
  /\ UNCHANGED <<materials, bins, compatibility, model, out, total>>

\* model.solve() on a problem with no feasible point: status Infeasible, and
\* the variables keep whatever the solver left in them.
SolveInfeasible ==
  /\ pc = "model"
  /\ FeasibleSolutions(model) = {}
  /\ status' = "Infeasible"
  /\ x' \in LeftoverValues(materials, bins, model)
  /\ pc' = "solved"
  /\ UNCHANGED <<materials, bins, compatibility, model, out, total>>

\* Output: print the pairs whose variable is 1, then the objective value.
\* Nothing here looks at the solve status.
OutputResults ==
  /\ pc = "solved"
  /\ out' = PrintedLines(materials, bins, x)
  /\ total' = ObjectiveValue(model, x)
  /\ pc' = "done"
  /\ UNCHANGED <<materials, bins, compatibility, model, x, status>>

Next == BuildCompatibility \/ DefineProblem \/ SolveOptimal \/ SolveInfeasible \/ OutputResults

Spec == Init /\ [][Next]_vars

\* The two building steps alone, for the properties of the compatibility
\* dictionary and of the problem's rows.
NextBuild == BuildCompatibility \/ DefineProblem

SpecBuild == Init /\ [][NextBuild]_vars

\* ===================================================== reference assignment
\* What an assignment has to satisfy, stated on the tables themselves.

\* A material may go to a bin: fragile only to safe, hazardous only to special.
Allowed(item, b) ==
  /\ item.tag = "fragile" => b.type = "safe"
  /\ item.tag = "hazardous" => b.type = "special"

\* Total size of the materials 1..Len(f) that f places in bin j.
PlacedLoad(ms, f, j) == SumTo([k \in 1..Len(f) |-> IF f[k] = j THEN ms[k].size ELSE 0], Len(f))

RECURSIVE Placements(_, _, _)
\* Every way to give each of the first k materials one allowed bin without
\* overfilling a bin (f[k] is the index of the bin of material k).
Placements(ms, bs, k) ==
  IF k = 0 THEN { <<>> }
  ELSE { g \in { Append(f, j) : f \in Placements(ms, bs, k - 1),
                                j \in { j \in 1..Len(bs) : Allowed(ms[k], bs[j]) } } :
           \A j \in 1..Len(bs) : PlacedLoad(ms, g, j) <= bs[j].capacity }

CompletePlacements == Placements(materials, bins, Len(materials))

\* Sum of frequency * distance over the materials f places.
PlacementCost(ms, bs, f) ==
  SumTo([k \in 1..Len(f) |-> ms[k].frequency * bs[f[k]].distance], Len(f))

\* The lines a placement prints, in table order.
LinesOf(ms, bs, f) == [k \in 1..Len(f) |-> <<ms[k].material, bs[f[k]].bin>>]

MaterialNamed(name) == materials[CHOOSE k \in 1..Len(materials) : materials[k].material = name]
BinNamed(name) == bins[CHOOSE j \in 1..Len(bins) : bins[j].bin = name]

\* Total size of the printed materials whose line names bin j.
PrintedLoad(j) ==
  SumTo([h \in 1..Len(out) |->
           IF out[h][2] = bins[j].bin THEN MaterialNamed(out[h][1]).size ELSE 0], Len(out))

\* Sum of frequency * distance over the printed lines.
PrintedCost ==
  SumTo([h \in 1..Len(out) |->
           MaterialNamed(out[h][1]).frequency * BinNamed(out[h][2]).distance], Len(out))

\* ================================================================== claims

\* C1: in every printed assignment, whatever the solve status, the sizes of
\* the materials printed for a bin add up to at most the bin's capacity.
C1_PrintedWithinCapacity ==
  pc = "done" => \A j \in 1..Len(bins) : PrintedLoad(j) <= bins[j].capacity

\* C2: every printed (material, bin) pair is marked compatible in the
\* compatibility dictionary: no fragile material outside a safe bin, no
\* hazardous material outside a special bin.
C2_PrintedCompatible ==
  pc = "done" =>
    \A h \in 1..Len(out) :
      /\ compatibility[out[h]] = 1
      /\ Allowed(MaterialNamed(out[h][1]), BinNamed(out[h][2]))

\* C3: every material of the table is printed with exactly one bin, for the
\* notebook's own tables and for any other.
C3_EveryMaterialOnce ==
  pc = "done" =>
    \A k \in 1..Len(materials) :
      Cardinality({ h \in 1..Len(out) : out[h][1] = materials[k].material }) = 1

\* C4: the printed objective value equals the sum of frequency * distance
\* over the printed lines.
C4_ObjectiveMatchesPrinted == pc = "done" => total = PrintedCost * One

\* C5: the run reaches its output only when a complete assignment within
\* capacity and compatibility exists, and then with a solved status; when none
\* exists it stops with an error and prints no assignment.
C5_InfeasibleStopsTheRun ==
  pc = "done" => (CompletePlacements # {} /\ status \in {"Optimal", "Feasible"})

\* C6: when some material has no compatible bin the solver is never invoked.
C6_NoSolveWithoutCompatibleBin ==
  (\E k \in 1..Len(materials) : \A j \in 1..Len(bins) : ~Allowed(materials[k], bins[j]))
    => (status = "Not Solved" /\ pc \notin {"solved", "done"})

\* C7: when the solve ends Optimal, the printed assignment gives every
\* material one allowed bin within capacity, the printed objective is its
\* frequency * distance sum, and no complete assignment costs less; the only
\* other status a solve ends with is Infeasible.  On the scenario tables the
\* output is M1 -> B1 with objective 3.
C7_OptimalIsMinimal ==
  /\ pc \in {"solved", "done"} => status \in {"Optimal", "Infeasible"}
  /\ (pc = "done" /\ status = "Optimal") =>
       \E f \in CompletePlacements :
         /\ out = LinesOf(materials, bins, f)
         /\ total = PlacementCost(materials, bins, f) * One
         /\ \A g \in CompletePlacements :
              PlacementCost(materials, bins, f) <= PlacementCost(materials, bins, g)
  /\ (pc = "done" /\ materials = ScenarioMaterials /\ bins = ScenarioBins) =>
       (status = "Optimal" /\ out = << <<"M1", "B1">> >> /\ total = 3 * One)

\* C7 witness: an Optimal run over two materials that had a dearer complete
\* assignment to reject.
C7_Witness ==
  /\ pc = "done" /\ status = "Optimal" /\ Len(materials) = 2
  /\ \E g \in CompletePlacements : PlacementCost(materials, bins, g) * One > total

\* The placement that comes first when placements are compared material by
\* material, smaller bin index first.
LexLeast(S) ==
  CHOOSE f \in S : \A g \in S :
    f = g \/ \E k \in 1..Len(f) : f[k] < g[k] /\ \A l \in 1..(k - 1) : f[l] = g[l]

\* C8: among the assignments of least objective the one printed is the
\* lexicographically smallest material-to-bin pairing, so the output is
\* determined by the input.
C8_TieBrokenLexicographically ==
  (pc = "done" /\ status = "Optimal") =>
    LET best == { f \in CompletePlacements : \A g \in CompletePlacements :
                    PlacementCost(materials, bins, f) <= PlacementCost(materials, bins, g) }
    IN out = LinesOf(materials, bins, LexLeast(best))

\* The same two rules asked in the other order.
CompatibilityOfReordered(item, b) ==
  IF item.tag = "hazardous" /\ b.type # "special" THEN 0
  ELSE IF item.tag = "fragile" /\ b.type # "safe" THEN 0
  ELSE 1

\* C9: the dictionary holds one 0/1 entry for every (material, bin) pair; the
\* entry is 0 exactly when the material is fragile and the bin not safe, or
\* hazardous and the bin not special, and 1 otherwise (a regular material goes
\* with every bin type); it depends only on tag and type, not on which rule is
\* asked first.
C9_CompatibilityRule ==
  pc # "data" =>
    /\ DOMAIN compatibility =
         { <<materials[k].material, bins[j].bin>> :
             k \in 1..Len(materials), j \in 1..Len(bins) }
    /\ \A k \in 1..Len(materials) : \A j \in 1..Len(bins) :
         LET c == compatibility[<<materials[k].material, bins[j].bin>>]
             t == materials[k].tag
             y == bins[j].type
         IN /\ c \in {0, 1}
            /\ c = 0 <=> ((t = "fragile" /\ y # "safe") \/ (t = "hazardous" /\ y # "special"))
            /\ t = "regular" => c = 1
            /\ c = CompatibilityOfReordered(materials[k], bins[j])
            /\ \A k2 \in 1..Len(materials) : \A j2 \in 1..Len(bins) :
                 (materials[k2].tag = t /\ bins[j2].type = y) =>
                   compatibility[<<materials[k2].material, bins[j2].bin>>] = c

\* C9 witness: a built dictionary with a refused fragile pair and a regular
\* material admitted to a special bin.
C9_Witness ==
  /\ pc = "compat"
  /\ \E k \in 1..Len(materials) : \E j \in 1..Len(bins) :
       /\ materials[k].tag = "fragile" /\ bins[j].type = "regular"
       /\ compatibility[<<materials[k].material, bins[j].bin>>] = 0
  /\ \E k \in 1..Len(materials) : \E j \in 1..Len(bins) :
       /\ materials[k].tag = "regular" /\ bins[j].type = "special"
       /\ compatibility[<<materials[k].material, bins[j].bin>>] = 1

\* ============================================ variables for compatible pairs only
\* The other way to state compatibility: no variable at all for a pair the
\* dictionary refuses, and no compatibility rows.

\* The bins material k has a variable for.
SparseBins(mdl, k) == { j \in 1..mdl.m : mdl.upper[k][j] = 1 }

RECURSIVE SumOver(_, _)
\* The sum of f over the finite set S.
SumOver(f, S) ==
  IF S = {} THEN 0
  ELSE LET e == CHOOSE e \in S : TRUE IN f[e] + SumOver(f, S \ {e})

\* The 0/1 rows of material k over its own variables that satisfy coverage.
SparseRowsOf(mdl, k) ==
  { row \in [SparseBins(mdl, k) -> Binary] : SumOver(row, DOMAIN row) = mdl.cover * One }

\* Load of bin j under the first Len(yy) rows.
SparseLoad(mdl, yy, j) ==
  SumTo([k \in 1..Len(yy) |-> IF j \in DOMAIN yy[k] THEN yy[k][j] * mdl.size[k] ELSE 0],
        Len(yy))

RECURSIVE SparsePartial(_, _)
SparsePartial(mdl, k) ==
  IF k = 0 THEN { <<>> }
  ELSE { q \in { Append(p, row) : p \in SparsePartial(mdl, k - 1), row \in SparseRowsOf(mdl, k) } :
           \A j \in 1..mdl.m : SparseLoad(mdl, q, j) <= mdl.capacity[j] * One }

SparseFeasibleSolutions(mdl) == SparsePartial(mdl, mdl.n)

SparseObjectiveValue(mdl, yy) ==
  SumTo([k \in 1..mdl.n |->
           SumOver([j \in DOMAIN yy[k] |-> yy[k][j] * mdl.objective[k][j]], DOMAIN yy[k])],
        mdl.n)

\* The (material, bin) pairs a point of either problem assigns.
AssignmentOf(mdl, xx) == { p \in (1..mdl.n) \X (1..mdl.m) : xx[p[1]][p[2]] = One }
SparseAssignmentOf(mdl, yy) ==
  { p \in (1..mdl.n) \X (1..mdl.m) : p[2] \in DOMAIN yy[p[1]] /\ yy[p[1]][p[2]] = One }

LeastOf(values) == CHOOSE v \in values : \A w \in values : v <= w

\* C10: the problem with a variable for every pair and the rows
\* x[i][b] <= compatibility[(i, b)] has the same feasible assignments and the
\* same least objective as the problem with variables for compatible pairs
\* only (same coverage and capacity rows).
C10_EncodingsAgree ==
  model.built =>
    LET full == FeasibleSolutions(model)
        sparse == SparseFeasibleSolutions(model)
    IN /\ { AssignmentOf(model, s) : s \in full } =
            { SparseAssignmentOf(model, s) : s \in sparse }
       /\ full # {} =>
            LeastOf({ ObjectiveValue(model, s) : s \in full }) =
              LeastOf({ SparseObjectiveValue(model, s) : s \in sparse })

\* C10 witness: a built problem with a refused pair and more than one
\* feasible assignment.
C10_Witness ==
  /\ model.built
  /\ \E k \in 1..model.n : \E j \in 1..model.m : model.upper[k][j] = 0
  /\ Cardinality(FeasibleSolutions(model)) >= 2

====
